---- MODULE Spec2Model ----
(***************************************************************************)
(* Topic / partition state core of librdkafka (src/rdkafka_topic.c).       *)
(*                                                                         *)
(* The heap of the client is modelled as four object tables: the client    *)
(* handle rk, the topics rkts, the partitions (toppars) rktps and the      *)
(* brokers rkbs.  Pointers are object ids, NULL is 0.  Every C function is  *)
(* an operator from heap to heap; the actions of the specifications apply  *)
(* one whole function to the current heap.                                 *)
(***************************************************************************)
EXTENDS Integers, Sequences, FiniteSets, TLC

(* ------------------------------ bounds -------------------------------- *)

\* topics that can ever be created on the client (caps rk_topic_cnt)
MaxTopicCnt == 2
\* largest partition count a metadata update can announce
MaxPartitionCnt == 2
\* toppar objects that can exist at the same time
MaxParts == 4
\* application threads that create topics concurrently
NumThreads == 2
\* brokers known to the client
NumBrokers == 2
\* distinct messages in flight
MaxMsgs == 2
\* toppar references callers may hold at the same time
MaxHandles == 1
\* references to one topic callers may hold at the same time
MaxTopicRefs == 1
\* cap on a topic's reference count (rd_kafka_toppar_get2 leaks one per call)
MaxRefcnt == 5

(* ----------------------------- constants ------------------------------ *)

NULL == 0
\* RD_KAFKA_PARTITION_UA
RD_KAFKA_PARTITION_UA == -1
\* errno value set by rd_kafka_topic_new on a bad configuration
EINVAL == 22

TopicIds  == 1..MaxTopicCnt
PartIds   == 1..MaxParts
BrokerIds == 1..NumBrokers
Msgs      == 1..MaxMsgs

\* C strings a caller can pass as topic name: the NULL pointer, the empty
\* string and a proper name
NullStr  == "(null)"
EmptyStr == ""
Names    == {"a"}
\* values of message_timeout_ms / request_timeout_ms a caller can pass
Timeouts == {0, 1}

\* node id of broker b, and the leader ids metadata can name: no leader (-1),
\* the known brokers, and one node id no broker has
NodeIdOf(b) == 10 + b
UnknownNodeId == NodeIdOf(NumBrokers) + 1
LeaderIds == {-1, UnknownNodeId} \cup {NodeIdOf(b) : b \in BrokerIds}

VARIABLES
    rk,        \* the client handle: rk_topics, rk_topic_cnt, rk_refcnt
    rkts,      \* topic objects
    rktps,     \* toppar objects
    rkbs,      \* broker objects
    handles,   \* toppar references handed to callers and not yet released
    app_refs,  \* topic references handed to callers and not yet released
    pending,   \* messages enqueued and not yet dequeued
    crashed,   \* "none", or how the process ended
    errno,     \* errno of the calling thread
    thr        \* per-thread position inside rd_kafka_topic_new

vars == <<rk, rkts, rktps, rkbs, handles, app_refs, pending, crashed,
          errno, thr>>

(* ------------------------------ objects ------------------------------- *)

NoTopic ==
    [st |-> "unalloc", rkt_topic |-> NullStr, rkt_refcnt |-> 0,
     rkt_partition_cnt |-> 0, rkt_p |-> <<>>, rkt_ua |-> NULL,
     rkt_desp |-> <<>>]

NoPart ==
    [st |-> "unalloc", rktp_partition |-> 0, rktp_rkt |-> NULL,
     rktp_refcnt |-> 0, rktp_flags |-> {}, rktp_leader |-> NULL,
     rktp_msgq |-> <<>>]

NoBroker ==
    [rkb_toppars |-> <<>>, rkb_toppar_cnt |-> 0, rkb_refcnt |-> 1]

\* the heap the C functions work on, with the return value of the call (ret),
\* the number of leader queries it scheduled (lq), the array a partition
\* count update builds (rktps_new), the locks the calling thread holds (held),
\* whether it took them in order so far (order_ok) and whether it changed
\* message queues under their toppar's lock only (msgq_ok)
Heap ==
    [rk |-> rk, rkts |-> rkts, rktps |-> rktps, rkbs |-> rkbs,
     handles |-> handles, app_refs |-> app_refs, crash |-> crashed,
     pending |-> pending, ret |-> NULL, errno |-> errno, lq |-> 0,
     rktps_new |-> <<>>, held |-> {}, order_ok |-> TRUE, msgq_ok |-> TRUE]

Range(s) == {s[i] : i \in 1..Len(s)}

RemoveFirst(s, x) ==
    IF x \notin Range(s) THEN s
    ELSE LET i == CHOOSE j \in 1..Len(s) :
                     s[j] = x /\ \A k \in 1..(j - 1) : s[k] # x
         IN  SubSeq(s, 1, i - 1) \o SubSeq(s, i + 1, Len(s))

Min(S) == CHOOSE x \in S : \A y \in S : x <= y

Sum(f, S) ==
    LET RECURSIVE sum(_)
        sum(T) == IF T = {} THEN 0
                  ELSE LET x == CHOOSE y \in T : TRUE
                       IN  f[x] + sum(T \ {x})
    IN  sum(S)

\* p is linked into a collection of the heap
InParts(h, p) == \E t \in TopicIds : p \in Range(h.rkts[t].rkt_p)
InDesp(h, p)  == \E t \in TopicIds : p \in Range(h.rkts[t].rkt_desp)
IsUa(h, p)    == \E t \in TopicIds : h.rkts[t].rkt_ua = p
InBroker(h, p) == \E b \in BrokerIds : p \in Range(h.rkbs[b].rkb_toppars)
Linked(h, p)  == InParts(h, p) \/ InDesp(h, p) \/ IsUa(h, p) \/ InBroker(h, p)

\* an operation dereferences object memory: freed memory is a use after free,
\* the outcome is undefined and the model stops there
Deref(h, ok, h2) ==
    IF h.crash # "none" THEN h
    ELSE IF ~ok THEN [h EXCEPT !.crash = "use_after_free"]
    ELSE h2

PartLive(h, p)  == h.rktps[p].st = "live"
TopicLive(h, t) == h.rkts[t].st = "live"

(* -------------------------------- locks ------------------------------- *)

\* the place of each kind of lock in the locking order
LockLevel(k) ==
    CASE k = "client" -> 1
      [] k = "topic"  -> 2
      [] k = "part"   -> 3
      [] k = "broker" -> 4

\* the thread takes a lock; taking it while a lock of a later kind is held
\* is out of order
Acquire(h, k, id) ==
    [h EXCEPT !.held = @ \cup {[k |-> k, id |-> id]},
              !.order_ok = @ /\ \A l \in h.held :
                                   LockLevel(l.k) <= LockLevel(k)]

Release(h, k, id) == [h EXCEPT !.held = @ \ {[k |-> k, id |-> id]}]

rd_kafka_lock(h)   == Acquire(h, "client", NULL)
rd_kafka_unlock(h) == Release(h, "client", NULL)
rd_kafka_topic_rdlock(h, t) == Acquire(h, "topic", t)
rd_kafka_topic_wrlock(h, t) == Acquire(h, "topic", t)
rd_kafka_topic_unlock(h, t) == Release(h, "topic", t)
rd_kafka_toppar_lock(h, p)   == Acquire(h, "part", p)
rd_kafka_toppar_unlock(h, p) == Release(h, "part", p)
rd_kafka_broker_toppars_wrlock(h, b) == Acquire(h, "broker", b)
rd_kafka_broker_toppars_unlock(h, b) == Release(h, "broker", b)

\* the queue of toppar p is changed: the thread should hold the lock of p
MsgqTouch(h, p) ==
    [h EXCEPT !.msgq_ok = @ /\ [k |-> "part", id |-> p] \in h.held]

(* --------------------------- reference counts ------------------------- *)

\* rd_kafka_toppar_keep / rd_kafka_topic_keep: atomic increment
rd_kafka_toppar_keep(h, p) ==
    Deref(h, PartLive(h, p), [h EXCEPT !.rktps[p].rktp_refcnt = @ + 1])

rd_kafka_topic_keep(h, t) ==
    Deref(h, TopicLive(h, t), [h EXCEPT !.rkts[t].rkt_refcnt = @ + 1])

\* rd_kafka_destroy0(rk): the client gives up one reference
rd_kafka_destroy0(h) == [h EXCEPT !.rk.rk_refcnt = @ - 1]

\* free(rkt): topic ids are never reused
FreeTopic(h, t) == [h EXCEPT !.rkts[t] = [NoTopic EXCEPT !.st = "freed"]]

\* lines 299-305 of rd_kafka_topic_destroy0: the atomic decrement and, at
\* zero, rd_kafkap_str_destroy of the name; str is what the memory of the
\* destroyed name reads as from then on
topic_destroy0_decr(h, t, str) ==
    LET n == h.rkts[t].rkt_refcnt - 1
        h1 == [h EXCEPT !.rkts[t].rkt_refcnt = n]
    IN  IF n > 0 THEN h1
        ELSE IF n # 0 THEN [h1 EXCEPT !.crash = "assert_refcnt"]
        ELSE [h1 EXCEPT !.rkts[t].rkt_topic = str]

\* lines 307-318: the topic leaves rk_topics under the client lock and is
\* freed
topic_destroy0_unlink(h, t) ==
    LET h2 == rd_kafka_unlock(
                  [rd_kafka_lock(h) EXCEPT
                      !.rk.rk_topics = RemoveFirst(@, t)])
    IN  FreeTopic(rd_kafka_destroy0(h2), t)

rd_kafka_topic_destroy0(h, t) ==
    Deref(h, TopicLive(h, t),
          LET h1 == topic_destroy0_decr(h, t, h.rkts[t].rkt_topic)
          IN  IF h1.crash # "none" \/ h1.rkts[t].rkt_refcnt > 0 THEN h1
              ELSE topic_destroy0_unlink(h1, t))

rd_kafka_topic_destroy(h, t) == rd_kafka_topic_destroy0(h, t)

\* free(rktp): the memory is returned; an object that is still linked or still
\* named by a handle stays behind as a dangling pointer
FreePart(h, p) ==
    IF Linked(h, p) \/ h.handles[p] > 0
    THEN [h EXCEPT !.rktps[p].st = "freed"]
    ELSE [h EXCEPT !.rktps[p] = NoPart]

rd_kafka_toppar_destroy0(h, p) ==
    LET h1 == rd_kafka_topic_destroy(h, h.rktps[p].rktp_rkt)
    IN  Deref(h1, TRUE, FreePart(h1, p))

\* rd_kafka_toppar_destroy: atomic decrement, destructor on zero
rd_kafka_toppar_destroy(h, p) ==
    Deref(h, PartLive(h, p),
          LET h1 == [h EXCEPT !.rktps[p].rktp_refcnt = @ - 1]
          IN  IF h1.rktps[p].rktp_refcnt = 0
              THEN rd_kafka_toppar_destroy0(h1, p)
              ELSE h1)

(* ------------------------------ toppars ------------------------------- *)

UnallocParts(h) == {p \in PartIds : h.rktps[p].st = "unalloc"}

\* the object calloc hands out next
NewPart(h) == Min(UnallocParts(h))

\* the toppar is created without a reference on its topic (line 55 left out)
rd_kafka_toppar_new_nokeep(h, t, partition) ==
    IF h.crash # "none" THEN h
    ELSE IF UnallocParts(h) = {} THEN [h EXCEPT !.crash = "out_of_model"]
    ELSE LET p  == NewPart(h)
             h1 == [h EXCEPT !.rktps[p] =
                       [NoPart EXCEPT !.st = "live",
                                      !.rktp_partition = partition,
                                      !.rktp_rkt = t]]
         IN  rd_kafka_toppar_keep(h1, p)

rd_kafka_toppar_new(h, t, partition) ==
    IF h.crash # "none" THEN h
    ELSE IF UnallocParts(h) = {} THEN [h EXCEPT !.crash = "out_of_model"]
    ELSE LET p  == NewPart(h)
             h1 == [h EXCEPT !.rktps[p] =
                       [NoPart EXCEPT !.st = "live",
                                      !.rktp_partition = partition,
                                      !.rktp_rkt = t]]
         IN  rd_kafka_topic_keep(rd_kafka_toppar_keep(h1, p), t)

\* the pointer rd_kafka_toppar_get returns
toppar_get_rktp(h, t, partition, ua_on_miss) ==
    IF partition >= 0 /\ partition < h.rkts[t].rkt_partition_cnt
    THEN h.rkts[t].rkt_p[partition + 1]
    ELSE IF ua_on_miss THEN h.rkts[t].rkt_ua
    ELSE NULL

rd_kafka_toppar_get(h, t, partition, ua_on_miss) ==
    Deref(h, TopicLive(h, t),
          LET p == toppar_get_rktp(h, t, partition, ua_on_miss)
          IN  IF p # NULL THEN rd_kafka_toppar_keep(h, p) ELSE h)

\* the pointer rd_kafka_toppar_desired_get returns
desired_get_rktp(h, t, partition) ==
    LET desp == h.rkts[t].rkt_desp
        hit  == {i \in 1..Len(desp) :
                    h.rktps[desp[i]].rktp_partition = partition}
    IN  IF hit = {} THEN NULL ELSE desp[Min(hit)]

\* the TAILQ_FOREACH reads every element up to the hit
desired_get_scanned(h, t, partition) ==
    LET desp == h.rkts[t].rkt_desp
        hit  == {i \in 1..Len(desp) :
                    h.rktps[desp[i]].rktp_partition = partition}
        last == IF hit = {} THEN Len(desp) ELSE Min(hit)
    IN  {desp[i] : i \in 1..last}

rd_kafka_toppar_desired_get(h, t, partition) ==
    Deref(h, TopicLive(h, t)
             /\ \A q \in desired_get_scanned(h, t, partition) : PartLive(h, q),
          LET p == desired_get_rktp(h, t, partition)
          IN  IF p # NULL THEN rd_kafka_toppar_keep(h, p) ELSE h)

rd_kafka_toppar_desired_add(h, t, partition) ==
    LET p1 == toppar_get_rktp(h, t, partition, FALSE)
        h1 == rd_kafka_toppar_get(h, t, partition, FALSE)
        p2 == desired_get_rktp(h1, t, partition)
        h2 == rd_kafka_toppar_desired_get(h1, t, partition)
        p3 == NewPart(h2)
        h3 == rd_kafka_toppar_new(h2, t, partition)
    IN  IF h1.crash # "none" THEN h1
        ELSE IF p1 # NULL
        THEN rd_kafka_toppar_unlock(
                 [rd_kafka_toppar_lock(h1, p1) EXCEPT
                     !.rktps[p1].rktp_flags = @ \cup {"DESIRED"},
                     !.ret = p1], p1)
        ELSE IF h2.crash # "none" THEN h2
        ELSE IF p2 # NULL THEN [h2 EXCEPT !.ret = p2]
        ELSE IF h3.crash # "none" THEN h3
        ELSE [h3 EXCEPT !.rktps[p3].rktp_flags = @ \cup {"DESIRED", "UNKNOWN"},
                        !.rkts[t].rkt_desp = Append(@, p3),
                        !.ret = p3]

rd_kafka_toppar_desired_del(h, p) ==
    Deref(h, PartLive(h, p),
          IF "DESIRED" \notin h.rktps[p].rktp_flags
          THEN rd_kafka_toppar_unlock(rd_kafka_toppar_lock(h, p), p)
          ELSE LET t  == h.rktps[p].rktp_rkt
                   h1 == [rd_kafka_toppar_lock(h, p) EXCEPT
                             !.rktps[p].rktp_flags = @ \ {"DESIRED"}]
                   h2 == IF "UNKNOWN" \in h1.rktps[p].rktp_flags
                         THEN Deref(h1, TopicLive(h1, t),
                                [h1 EXCEPT
                                   !.rktps[p].rktp_flags = @ \ {"UNKNOWN"},
                                   !.rkts[t].rkt_desp = RemoveFirst(@, p)])
                         ELSE h1
               IN  rd_kafka_toppar_destroy(
                       Deref(h2, TRUE, rd_kafka_toppar_unlock(h2, p)), p))

(* --------------------------- message queues --------------------------- *)

\* rd_kafka_msgq_purge: every message of the queue is released
rd_kafka_msgq_purge(h, p) ==
    MsgqTouch([h EXCEPT !.rktps[p].rktp_msgq = <<>>], p)

\* rd_kafka_msgq_concat(dst, src) on the queues of two toppars
rd_kafka_msgq_concat(h, dst, src) ==
    MsgqTouch(MsgqTouch(
        [h EXCEPT !.rktps[dst].rktp_msgq = @ \o h.rktps[src].rktp_msgq,
                  !.rktps[src].rktp_msgq = <<>>], dst), src)

rd_kafka_toppar_move_msgs(h, dst, src) ==
    LET h1 == rd_kafka_toppar_keep(h, src)
        h2 == Deref(h1, PartLive(h1, dst), rd_kafka_msgq_concat(h1, dst, src))
    IN  rd_kafka_toppar_destroy(h2, src)

rd_kafka_toppar_enq_msg(h, p, m) ==
    Deref(h, PartLive(h, p),
          rd_kafka_toppar_unlock(
              MsgqTouch([rd_kafka_toppar_lock(h, p) EXCEPT
                            !.rktps[p].rktp_msgq = Append(@, m)], p), p))

rd_kafka_toppar_deq_msg(h, p, m) ==
    Deref(h, PartLive(h, p),
          rd_kafka_toppar_unlock(
              MsgqTouch([rd_kafka_toppar_lock(h, p) EXCEPT
                            !.rktps[p].rktp_msgq = RemoveFirst(@, m)], p), p))

\* lines 283-285 of rd_kafka_toppar_ua_move: the UA toppar is looked up under
\* the topic lock; the call passes no ua_on_miss argument, so the value the
\* callee reads is indeterminate
ua_move_get(h, t, ua_on_miss) ==
    rd_kafka_topic_unlock(
        rd_kafka_toppar_get(rd_kafka_topic_rdlock(h, t), t,
                            RD_KAFKA_PARTITION_UA, ua_on_miss), t)

\* lines 290-294: the messages of rkmq go to the tail of the UA queue
ua_move_concat(h, rktp_ua, rkmq) ==
    Deref(h, PartLive(h, rktp_ua),
          [rd_kafka_toppar_destroy(
               MsgqTouch([h EXCEPT !.rktps[rktp_ua].rktp_msgq = @ \o rkmq],
                         rktp_ua), rktp_ua)
              EXCEPT !.ret = 0])

rd_kafka_toppar_ua_move(h, t, ua_on_miss, rkmq) ==
    LET rktp_ua == toppar_get_rktp(h, t, RD_KAFKA_PARTITION_UA, ua_on_miss)
        h1      == ua_move_get(h, t, ua_on_miss)
    IN  IF rktp_ua = NULL THEN [h1 EXCEPT !.ret = -1]
        ELSE ua_move_concat(h1, rktp_ua, rkmq)

(* ------------------------------- topics ------------------------------- *)

\* rd_kafkap_str_cmp_str: 0 when the protocol string equals the C string
rd_kafkap_str_cmp_str(kstr, str) == IF kstr = str THEN 0 ELSE 1

\* the pointer rd_kafka_topic_find returns: the first match of the list
topic_find_rkt(h, topic) ==
    LET l   == h.rk.rk_topics
        hit == {i \in 1..Len(l) :
                   rd_kafkap_str_cmp_str(h.rkts[l[i]].rkt_topic, topic) = 0}
    IN  IF hit = {} THEN NULL ELSE l[Min(hit)]

rd_kafka_topic_find(h, topic) ==
    LET t  == topic_find_rkt(h, topic)
        h1 == rd_kafka_lock(h)
    IN  rd_kafka_unlock(IF t = NULL THEN h1 ELSE rd_kafka_topic_keep(h1, t))

UnallocTopics(h) == {t \in TopicIds : h.rkts[t].st = "unalloc"}
NewTopic(h) == Min(UnallocTopics(h))

\* rd_kafka_topic_leader_query: schedules one asynchronous metadata request
rd_kafka_topic_leader_query(h, t) == Deref(h, TRUE, [h EXCEPT !.lq = @ + 1])

\* the check with < for <=: a timeout of 0 passes
topic_new_invalid_lt(topic, message_timeout_ms, request_timeout_ms) ==
    topic = NullStr \/ message_timeout_ms < 0 \/ request_timeout_ms < 0

\* lines 379-385: the configuration check of rd_kafka_topic_new; the caller
\* passes a configuration object (line 380 reads it before line 395 tests it)
topic_new_invalid(topic, message_timeout_ms, request_timeout_ms) ==
    topic = NullStr \/ message_timeout_ms <= 0 \/ request_timeout_ms <= 0

\* lines 390-414: allocate the topic and its unassigned toppar
topic_new_alloc(h, topic) ==
    IF UnallocTopics(h) = {} THEN [h EXCEPT !.crash = "out_of_model"]
    ELSE LET t  == NewTopic(h)
             h1 == [h EXCEPT !.rkts[t] =
                       [NoTopic EXCEPT !.st = "live", !.rkt_topic = topic]]
             h2 == rd_kafka_topic_keep(h1, t)
             h3 == [h2 EXCEPT !.rk.rk_refcnt = @ + 1]
             ua == NewPart(h3)
             h4 == rd_kafka_toppar_new(h3, t, RD_KAFKA_PARTITION_UA)
         IN  Deref(h4, TRUE, [h4 EXCEPT !.rkts[t].rkt_ua = ua, !.ret = t])

\* lines 416-419: link the topic into the client's list
topic_new_link(h, t) ==
    rd_kafka_unlock([rd_kafka_lock(h) EXCEPT
                        !.rk.rk_topics = Append(@, t),
                        !.rk.rk_topic_cnt = @ + 1])

rd_kafka_topic_new(h, topic, message_timeout_ms, request_timeout_ms) ==
    IF topic_new_invalid(topic, message_timeout_ms, request_timeout_ms)
    THEN [h EXCEPT !.errno = EINVAL, !.ret = NULL]
    ELSE IF topic_find_rkt(h, topic) # NULL
    THEN [rd_kafka_topic_find(h, topic) EXCEPT
             !.ret = topic_find_rkt(h, topic)]
    ELSE LET h1 == topic_new_alloc(h, topic)
             h2 == Deref(h1, TRUE, topic_new_link(h1, h1.ret))
         IN  rd_kafka_topic_leader_query(h2, h2.ret)

(* ------------------------------ brokers ------------------------------- *)

\* rd_kafka_broker_find_by_nodeid: the broker with that node id, or NULL
broker_find_rkb(h, nodeid) ==
    LET hit == {b \in BrokerIds : NodeIdOf(b) = nodeid}
    IN  IF hit = {} THEN NULL ELSE Min(hit)

rd_kafka_broker_keep(h, b) == [h EXCEPT !.rkbs[b].rkb_refcnt = @ + 1]
rd_kafka_broker_destroy(h, b) == [h EXCEPT !.rkbs[b].rkb_refcnt = @ - 1]

rd_kafka_broker_find_by_nodeid(h, nodeid) ==
    LET b == broker_find_rkb(h, nodeid)
    IN  IF b = NULL THEN h ELSE rd_kafka_broker_keep(h, b)

\* the toppar leaves its leader, but rkb_toppar_cnt is not decremented
broker_undelegate_keepcnt(h, p) ==
    LET old == h.rktps[p].rktp_leader
        h1  == [h EXCEPT !.rkbs[old].rkb_toppars = RemoveFirst(@, p),
                         !.rktps[p].rktp_leader = NULL]
    IN  Deref(rd_kafka_toppar_destroy(h1, p), TRUE,
              rd_kafka_broker_destroy(rd_kafka_toppar_destroy(h1, p), old))

\* lines 456-474: the toppar leaves its current leader
broker_undelegate(h, p) ==
    LET old == h.rktps[p].rktp_leader
        h1  == rd_kafka_broker_toppars_unlock(
                   [rd_kafka_broker_toppars_wrlock(h, old) EXCEPT
                       !.rkbs[old].rkb_toppars = RemoveFirst(@, p),
                       !.rkbs[old].rkb_toppar_cnt = @ - 1,
                       !.rktps[p].rktp_leader = NULL], old)
    IN  Deref(rd_kafka_toppar_destroy(h1, p), TRUE,
              rd_kafka_broker_destroy(rd_kafka_toppar_destroy(h1, p), old))

\* lines 476-493: the toppar joins broker b
broker_redelegate(h, p, b) ==
    LET h1 == rd_kafka_toppar_keep(rd_kafka_broker_toppars_wrlock(h, b), p)
    IN  Deref(h1, TRUE,
              rd_kafka_broker_toppars_unlock(
                  rd_kafka_broker_keep(
                      [h1 EXCEPT !.rkbs[b].rkb_toppars = Append(@, p),
                                 !.rkbs[b].rkb_toppar_cnt = @ + 1,
                                 !.rktps[p].rktp_leader = b], b), b))

rd_kafka_toppar_broker_delegate(h, p, b) ==
    Deref(h, PartLive(h, p),
          IF h.rktps[p].rktp_leader = b THEN h
          ELSE LET h1 == rd_kafka_toppar_keep(h, p)
                   h2 == IF h1.rktps[p].rktp_leader # NULL
                         THEN broker_undelegate(h1, p) ELSE h1
                   h3 == IF b # NULL
                         THEN Deref(h2, TRUE, broker_redelegate(h2, p, b))
                         ELSE h2
               IN  rd_kafka_toppar_destroy(h3, p))

(* -------------------------- topology updater -------------------------- *)

\* the leader is lost, but no metadata refresh is requested
topic_update_lost_noquery(h, t, p) ==
    LET h1 == rd_kafka_toppar_broker_delegate(h, p, NULL)
        h2 == rd_kafka_toppar_destroy(h1, p)
    IN  rd_kafka_topic_destroy(h2, t)

\* lines 531-542 and 545-559 of rd_kafka_topic_update: the partition has no
\* leader, or one this client does not know
topic_update_lost(h, t, p) ==
    LET h1 == rd_kafka_topic_unlock(
                  rd_kafka_toppar_broker_delegate(h, p, NULL), t)
        h2 == rd_kafka_topic_leader_query(h1, t)
        h3 == rd_kafka_toppar_destroy(h2, p)
    IN  rd_kafka_topic_destroy(h3, t)

\* lines 531-591 of rd_kafka_topic_update: the four cases, once the topic t,
\* the broker rkb and the toppar p are at hand
topic_update_cases(h, t, p, rkb, leader) ==
    IF leader = -1 THEN topic_update_lost(h, t, p)
    ELSE IF rkb = NULL THEN topic_update_lost(h, t, p)
    ELSE IF h.rktps[p].rktp_leader # NULL /\ h.rktps[p].rktp_leader = rkb
    THEN LET h1 == rd_kafka_broker_destroy(rd_kafka_topic_unlock(h, t), rkb)
             h2 == rd_kafka_toppar_destroy(h1, p)
         IN  rd_kafka_topic_destroy(h2, t)
    ELSE LET h1 == rd_kafka_topic_unlock(
                       rd_kafka_toppar_broker_delegate(h, p, rkb), t)
             h2 == Deref(h1, TRUE, rd_kafka_broker_destroy(h1, rkb))
             h3 == rd_kafka_toppar_destroy(h2, p)
         IN  rd_kafka_topic_destroy(h3, t)

\* line 529, assert(rktp): the process aborts; a build with NDEBUG goes on to
\* dereference the NULL pointer in rd_kafka_toppar_broker_delegate
topic_update_assert(h, p) ==
    IF p = NULL THEN [h EXCEPT !.crash = "assert_rktp"] ELSE h

rd_kafka_topic_update(h, topic, partition, leader) ==
    LET t   == topic_find_rkt(h, topic)
        h1  == rd_kafka_topic_find(h, topic)
        rkb == broker_find_rkb(h1, leader)
        h2  == Deref(h1, TRUE,
                     rd_kafka_topic_wrlock(
                         rd_kafka_unlock(rd_kafka_broker_find_by_nodeid(
                                             rd_kafka_lock(h1), leader)), t))
        p   == toppar_get_rktp(h2, t, partition, FALSE)
        h3  == rd_kafka_toppar_get(h2, t, partition, FALSE)
        h4  == Deref(h3, TRUE, topic_update_assert(h3, p))
    IN  IF t = NULL THEN h
        ELSE Deref(h4, PartLive(h4, p),
                   topic_update_cases(h4, t, p, rkb, leader))

\* lines 606-616 of rd_kafka_topic_partitions_remove, from index i on
RECURSIVE partitions_remove_loop(_, _, _)
partitions_remove_loop(h, t, i) ==
    IF h.crash # "none" \/ i >= h.rkts[t].rkt_partition_cnt THEN h
    ELSE LET p  == toppar_get_rktp(h, t, i, FALSE)
             h1 == rd_kafka_toppar_get(h, t, i, FALSE)
             h2 == Deref(h1, PartLive(h1, p),
                         rd_kafka_toppar_unlock(
                             rd_kafka_msgq_purge(
                                 rd_kafka_toppar_lock(h1, p), p), p))
             h3 == rd_kafka_toppar_destroy(h2, p)
             h4 == rd_kafka_toppar_destroy(h3, p)
         IN  IF p = NULL THEN partitions_remove_loop(h1, t, i + 1)
             ELSE partitions_remove_loop(h4, t, i + 1)

\* lines 624-631: the unassigned toppar; the call passes no ua_on_miss
\* argument, so the value the callee reads is indeterminate
partitions_remove_ua(h, t, ua_on_miss) ==
    LET p  == toppar_get_rktp(h, t, RD_KAFKA_PARTITION_UA, ua_on_miss)
        h1 == rd_kafka_toppar_get(h, t, RD_KAFKA_PARTITION_UA, ua_on_miss)
        h2 == Deref(h1, PartLive(h1, p),
                    rd_kafka_toppar_unlock(
                        [rd_kafka_msgq_purge(rd_kafka_toppar_lock(h1, p), p)
                            EXCEPT !.rkts[t].rkt_ua = NULL], p))
        h3 == rd_kafka_toppar_destroy(h2, p)
    IN  IF h.crash # "none" \/ p = NULL THEN h1
        ELSE rd_kafka_toppar_destroy(h3, p)

\* the array is freed, but rkt_partition_cnt keeps its value
partitions_remove_free_keepcnt(h, t) ==
    [h EXCEPT !.rkts[t].rkt_p = <<>>]

\* lines 618-622: the array is freed and the count reset
partitions_remove_free(h, t) ==
    [h EXCEPT !.rkts[t].rkt_p = <<>>, !.rkts[t].rkt_partition_cnt = 0]

rd_kafka_topic_partitions_remove(h, t, ua_on_miss) ==
    LET h1 == Deref(rd_kafka_topic_keep(h, t), TRUE,
                    rd_kafka_topic_wrlock(rd_kafka_topic_keep(h, t), t))
        h2 == partitions_remove_loop(h1, t, 0)
        h3 == Deref(h2, TRUE, partitions_remove_free(h2, t))
        h4 == Deref(h3, TRUE, partitions_remove_ua(h3, t, ua_on_miss))
    IN  rd_kafka_topic_destroy(
            Deref(h4, TRUE, rd_kafka_topic_unlock(h4, t)), t)

\* the desired toppar becomes the known partition but stays on rkt_desp
partition_cnt_absorb_nounlink(h, t, d) ==
    [h EXCEPT !.rktps[d].rktp_flags = @ \ {"UNKNOWN"},
              !.rktps_new = Append(@, d)]

\* the desired toppar becomes the known partition but keeps its UNKNOWN flag
partition_cnt_absorb_keepunknown(h, t, d) ==
    [h EXCEPT !.rkts[t].rkt_desp = RemoveFirst(@, d),
              !.rktps_new = Append(@, d)]

\* lines 692-699: a desired toppar d becomes the known partition
partition_cnt_absorb(h, t, d) ==
    [rd_kafka_toppar_unlock(
         [rd_kafka_toppar_lock(h, d) EXCEPT
             !.rktps[d].rktp_flags = @ \ {"UNKNOWN"}], d)
        EXCEPT !.rkts[t].rkt_desp = RemoveFirst(@, d),
               !.rktps_new = Append(@, d)]

\* lines 688-707 of rd_kafka_topic_partition_cnt_update, from index i on: the
\* new array is built in rktps_new
RECURSIVE partition_cnt_grow(_, _, _, _)
partition_cnt_grow(h, t, i, partition_cnt) ==
    IF h.crash # "none" \/ i >= partition_cnt THEN h
    ELSE IF i >= h.rkts[t].rkt_partition_cnt
    THEN LET d  == desired_get_rktp(h, t, i)
             h1 == rd_kafka_toppar_desired_get(h, t, i)
             h2 == Deref(h1, TRUE, partition_cnt_absorb(h1, t, d))
             n  == NewPart(h1)
             h3 == rd_kafka_toppar_new(h1, t, i)
             h4 == Deref(h3, TRUE, [h3 EXCEPT !.rktps_new = Append(@, n)])
         IN  IF d # NULL THEN partition_cnt_grow(h2, t, i + 1, partition_cnt)
             ELSE partition_cnt_grow(h4, t, i + 1, partition_cnt)
    ELSE partition_cnt_grow(
             [h EXCEPT !.rktps_new = Append(@, h.rkts[t].rkt_p[i + 1])],
             t, i + 1, partition_cnt)

\* lines 712-734: the partitions from index i on have gone away
RECURSIVE partition_cnt_shrink(_, _, _, _)
partition_cnt_shrink(h, t, i, rktp_ua) ==
    IF h.crash # "none" \/ i >= h.rkts[t].rkt_partition_cnt THEN h
    ELSE LET p  == h.rkts[t].rkt_p[i + 1]
             h1 == IF rktp_ua # NULL
                   THEN rd_kafka_toppar_move_msgs(h, rktp_ua, p)
                   ELSE Deref(h, PartLive(h, p), rd_kafka_msgq_purge(h, p))
             h2 == Deref(h1, PartLive(h1, p),
                     IF "DESIRED" \notin h1.rktps[p].rktp_flags
                     THEN rd_kafka_toppar_unlock(
                              rd_kafka_toppar_lock(h1, p), p)
                     ELSE IF "UNKNOWN" \in h1.rktps[p].rktp_flags
                     THEN [h1 EXCEPT !.crash = "assert_unknown"]
                     ELSE rd_kafka_toppar_unlock(
                              [rd_kafka_toppar_lock(h1, p) EXCEPT
                                  !.rktps[p].rktp_flags = @ \cup {"UNKNOWN"},
                                  !.rkts[t].rkt_desp = Append(@, p)], p))
             h3 == rd_kafka_toppar_destroy(h2, p)
         IN  partition_cnt_shrink(h3, t, i + 1, rktp_ua)

rd_kafka_topic_partition_cnt_update(h, topic, partition_cnt) ==
    LET t  == topic_find_rkt(h, topic)
        h0 == rd_kafka_topic_find(h, topic)
        h1 == IF t = NULL THEN h0
              ELSE Deref(h0, TRUE, rd_kafka_topic_wrlock(h0, t))
        h2 == partition_cnt_grow([h1 EXCEPT !.rktps_new = <<>>], t, 0,
                                 partition_cnt)
        ua == toppar_get_rktp(h2, t, RD_KAFKA_PARTITION_UA, FALSE)
        h3 == rd_kafka_toppar_get(h2, t, RD_KAFKA_PARTITION_UA, FALSE)
        h4 == partition_cnt_shrink(h3, t, partition_cnt, ua)
        h5 == IF ua # NULL THEN rd_kafka_toppar_destroy(h4, ua) ELSE h4
        h6 == Deref(h5, TRUE,
                    rd_kafka_topic_unlock(
                        [h5 EXCEPT !.rkts[t].rkt_p = h5.rktps_new,
                                   !.rkts[t].rkt_partition_cnt = partition_cnt,
                                   !.rktps_new = <<>>], t))
    IN  IF t = NULL THEN [h0 EXCEPT !.ret = -1]
        ELSE IF h1.crash # "none" THEN h1
        ELSE IF h1.rkts[t].rkt_partition_cnt = partition_cnt
        THEN [rd_kafka_topic_destroy(rd_kafka_topic_unlock(h1, t), t)
                 EXCEPT !.ret = 0]
        ELSE [rd_kafka_topic_destroy(h6, t) EXCEPT !.ret = 1]

(* ------------------------------ UA drain ------------------------------ *)

\* rd_kafka_msg_partitioner(rkt, NULL, rkm): the partitioner of the topic
\* chooses partition dec[m] for message m; a partition the topic does not
\* have is unavailable (ret = -1), otherwise the message goes to the tail of
\* the chosen toppar's queue
rd_kafka_msg_partitioner(h, t, m, dec) ==
    IF dec[m] < 0 \/ dec[m] >= h.rkts[t].rkt_partition_cnt
    THEN [h EXCEPT !.ret = -1]
    ELSE [rd_kafka_toppar_enq_msg(h, h.rkts[t].rkt_p[dec[m] + 1], m)
             EXCEPT !.ret = dec[m]]

\* lines 788-793 of rd_kafka_topic_assign_uas: the messages of uas are
\* partitioned one by one; rktps_new collects the queue called failed
RECURSIVE assign_uas_loop(_, _, _, _)
assign_uas_loop(h, t, uas, dec) ==
    IF h.crash # "none" \/ uas = <<>> THEN h
    ELSE LET h1 == rd_kafka_msg_partitioner(h, t, Head(uas), dec)
         IN  assign_uas_loop(
                 IF h1.crash = "none" /\ h1.ret = -1
                 THEN [h1 EXCEPT !.rktps_new = Append(@, Head(uas))]
                 ELSE h1,
                 t, Tail(uas), dec)

\* lines 761-793 of rd_kafka_topic_assign_uas: the topic and its UA toppar
\* are looked up, the UA queue is taken under the toppar lock and its
\* messages are partitioned; rktps_new is the queue called failed. The call
\* on line 767 passes no ua_on_miss argument, so the value the callee reads is
\* indeterminate
assign_uas_take(h, topic, ua_on_miss, dec) ==
    LET t   == topic_find_rkt(h, topic)
        h1  == rd_kafka_topic_find(h, topic)
        ua  == toppar_get_rktp(h1, t, RD_KAFKA_PARTITION_UA, ua_on_miss)
        h2  == rd_kafka_toppar_get(h1, t, RD_KAFKA_PARTITION_UA, ua_on_miss)
        uas == h2.rktps[ua].rktp_msgq
        h3  == Deref(h2, PartLive(h2, ua),
                     rd_kafka_toppar_unlock(
                         MsgqTouch([rd_kafka_toppar_lock(h2, ua) EXCEPT
                                       !.rktps[ua].rktp_msgq = <<>>,
                                       !.rktps_new = <<>>], ua), ua))
    IN  IF t = NULL THEN h1
        ELSE IF ua = NULL THEN rd_kafka_topic_destroy(h2, t)
        ELSE assign_uas_loop(h3, t, uas, dec)

\* line 805, rd_kafka_msgq_concat(&failed, &rktp_ua->rktp_msgq): the UA queue
\* goes to the tail of failed and is left empty
assign_uas_concat(h, ua) ==
    Deref(h, PartLive(h, ua),
          MsgqTouch([h EXCEPT !.rktps_new = @ \o h.rktps[ua].rktp_msgq,
                              !.rktps[ua].rktp_msgq = <<>>], ua))

\* line 806, rd_kafka_msgq_move(&rktp_ua->rktp_msgq, &failed): the UA queue
\* becomes what failed holds, whatever it held before
assign_uas_move(h, ua) ==
    Deref(h, PartLive(h, ua),
          MsgqTouch([h EXCEPT !.rktps[ua].rktp_msgq = h.rktps_new,
                              !.rktps_new = <<>>], ua))

rd_kafka_topic_assign_uas(h, topic, ua_on_miss, dec) ==
    LET t   == topic_find_rkt(h, topic)
        ua  == toppar_get_rktp(h, t, RD_KAFKA_PARTITION_UA, ua_on_miss)
        h4  == assign_uas_take(h, topic, ua_on_miss, dec)
        h5  == IF h4.rktps_new = <<>> THEN h4
               ELSE assign_uas_move(assign_uas_concat(h4, ua), ua)
    IN  IF t = NULL \/ ua = NULL THEN h4
        ELSE rd_kafka_topic_destroy(rd_kafka_toppar_destroy(h5, ua), t)

(* ------------------------------ actions ------------------------------- *)

\* the callers of rd_kafka_toppar_get, rd_kafka_toppar_desired_get,
\* rd_kafka_toppar_desired_add, rd_kafka_toppar_desired_del and
\* rd_kafka_toppar_broker_delegate hold the topic lock around the call (the
\* comments at lines 77, 130, 152, 190 and 445)

\* freed toppars nothing points to any more are plain free memory
Sweep(h) ==
    [h EXCEPT !.rktps =
        [p \in PartIds |->
            IF h.rktps[p].st = "freed" /\ ~Linked(h, p) /\ h.handles[p] = 0
            THEN NoPart ELSE h.rktps[p]]]

\* the values of a client that was just created
InitRk == [rk_topics |-> <<>>, rk_topic_cnt |-> 0, rk_refcnt |-> 1]
InitRkts == [t \in TopicIds |-> NoTopic]
InitRktps == [p \in PartIds |-> NoPart]
InitRkbs == [b \in BrokerIds |-> NoBroker]
InitHandles == [p \in PartIds |-> 0]
InitAppRefs == [t \in TopicIds |-> 0]

\* the heap h is the state after the call; when the call ended the process
\* (a failed assert, a use of freed memory) its memory is gone with it
Commit(h) ==
    LET s == Sweep(h)
    IN  /\ h.crash # "out_of_model"
        /\ crashed' = h.crash
        /\ IF h.crash = "none"
           THEN /\ rk' = s.rk
                /\ rkts' = s.rkts
                /\ rktps' = s.rktps
                /\ rkbs' = s.rkbs
                /\ handles' = s.handles
                /\ app_refs' = s.app_refs
                /\ pending' = s.pending
                /\ errno' = s.errno
           ELSE /\ rk' = InitRk
                /\ rkts' = InitRkts
                /\ rktps' = InitRktps
                /\ rkbs' = InitRkbs
                /\ handles' = InitHandles
                /\ app_refs' = InitAppRefs
                /\ pending' = {}
                /\ errno' = 0

Running == crashed = "none"

\* the caller received a toppar / topic reference
GiveHandle(h, p) ==
    IF h.crash = "none" /\ p # NULL
    THEN [h EXCEPT !.handles[p] = @ + 1] ELSE h
GiveTopic(h, t) ==
    IF h.crash = "none" /\ t # NULL
    THEN [h EXCEPT !.app_refs[t] = @ + 1] ELSE h

HandlesHeld == Sum(handles, PartIds)
\* topics and toppars a caller can name
HeldTopics == {t \in TopicIds : app_refs[t] > 0}
HeldParts  == {p \in PartIds : handles[p] > 0}
\* partition ids a caller can name: the known range and the first id past it
PartitionArgs == 0..MaxPartitionCnt

TopicNew(topic, message_timeout_ms, request_timeout_ms) ==
    /\ Running
    /\ \A t \in TopicIds : rkts[t].rkt_topic = topic => app_refs[t] < MaxTopicRefs
    /\ LET h == rd_kafka_topic_new(Heap, topic, message_timeout_ms,
                                   request_timeout_ms)
       IN  Commit(GiveTopic(h, h.ret))
    /\ UNCHANGED thr

TopicDestroy(t) ==
    /\ Running
    /\ t \in HeldTopics
    /\ Commit(rd_kafka_topic_destroy([Heap EXCEPT !.app_refs[t] = @ - 1], t))
    /\ UNCHANGED thr

\* a caller holding the topic lock looks a partition up
TopparGet(t, partition, ua_on_miss) ==
    /\ Running
    /\ t \in HeldTopics
    /\ HandlesHeld < MaxHandles
    /\ toppar_get_rktp(Heap, t, partition, ua_on_miss) # NULL
    /\ LET h == rd_kafka_topic_unlock(
                   rd_kafka_toppar_get(rd_kafka_topic_wrlock(Heap, t),
                       t, partition, ua_on_miss),
                   t)
       IN  Commit(GiveHandle(h, toppar_get_rktp(Heap, t, partition,
                                                ua_on_miss)))
    /\ UNCHANGED thr

\* a caller releases a toppar reference it was given
TopparDestroy(p) ==
    /\ Running
    /\ p \in HeldParts
    /\ Commit(rd_kafka_toppar_destroy([Heap EXCEPT !.handles[p] = @ - 1], p))
    /\ UNCHANGED thr

DesiredGet(t, partition) ==
    /\ Running
    /\ t \in HeldTopics
    /\ HandlesHeld < MaxHandles
    /\ desired_get_rktp(Heap, t, partition) # NULL
    /\ LET h == rd_kafka_topic_unlock(
                   rd_kafka_toppar_desired_get(rd_kafka_topic_wrlock(Heap, t),
                       t, partition),
                   t)
       IN  Commit(GiveHandle(h, desired_get_rktp(Heap, t, partition)))
    /\ UNCHANGED thr

DesiredAdd(t, partition) ==
    /\ Running
    /\ t \in HeldTopics
    /\ HandlesHeld < MaxHandles
    /\ LET h == rd_kafka_topic_unlock(
                   rd_kafka_toppar_desired_add(rd_kafka_topic_wrlock(Heap, t),
                       t, partition),
                   t)
       IN  Commit(GiveHandle(h, h.ret))
    /\ UNCHANGED thr

DesiredDel(p) ==
    /\ Running
    /\ p \in HeldParts
    /\ Commit(rd_kafka_topic_unlock(
                   rd_kafka_toppar_desired_del(rd_kafka_topic_wrlock(Heap, rktps[p].rktp_rkt),
                       p),
                   rktps[p].rktp_rkt))
    /\ UNCHANGED thr

PartitionCntUpdate(topic, partition_cnt) ==
    /\ Running
    /\ Commit(rd_kafka_topic_partition_cnt_update(Heap, topic, partition_cnt))
    /\ UNCHANGED thr

TopicUpdate(topic, partition, leader) ==
    /\ Running
    /\ Commit(rd_kafka_topic_update(Heap, topic, partition, leader))
    /\ UNCHANGED thr

BrokerDelegate(p, b) ==
    /\ Running
    /\ p \in HeldParts
    /\ Commit(rd_kafka_topic_unlock(
                   rd_kafka_toppar_broker_delegate(rd_kafka_topic_wrlock(Heap, rktps[p].rktp_rkt),
                       p, b),
                   rktps[p].rktp_rkt))
    /\ UNCHANGED thr

PartitionsRemove(t, ua_on_miss) ==
    /\ Running
    /\ t \in HeldTopics
    /\ Commit(rd_kafka_topic_partitions_remove(Heap, t, ua_on_miss))
    /\ UNCHANGED thr

\* rd_kafka_toppar_get2: looks the topic up by name first; the reference
\* rd_kafka_topic_find0 took on the topic is not given back
rd_kafka_toppar_get2(h, topic, partition, ua_on_miss) ==
    LET t  == topic_find_rkt(h, topic)
        h1 == rd_kafka_topic_find(h, topic)
    IN  IF t = NULL THEN h1
        ELSE rd_kafka_topic_unlock(
                 rd_kafka_toppar_get(rd_kafka_topic_rdlock(h1, t), t,
                                     partition, ua_on_miss), t)

TopparGet2(topic, partition, ua_on_miss) ==
    /\ Running
    /\ HandlesHeld < MaxHandles
    /\ topic_find_rkt(Heap, topic) # NULL
    /\ rkts[topic_find_rkt(Heap, topic)].rkt_refcnt < MaxRefcnt
    /\ LET t == topic_find_rkt(Heap, topic)
           h == rd_kafka_toppar_get2(Heap, topic, partition, ua_on_miss)
       IN  Commit(GiveHandle(h, toppar_get_rktp(Heap, t, partition,
                                                ua_on_miss)))
    /\ UNCHANGED thr

\* messages that are in no queue and not pending can be produced
QueuedMsgs == UNION {Range(rktps[p].rktp_msgq) : p \in PartIds}

EnqMsg(p, m) ==
    /\ Running
    /\ p \in HeldParts
    /\ m \notin pending \cup QueuedMsgs
    /\ Commit(rd_kafka_toppar_enq_msg(
                  [Heap EXCEPT !.pending = @ \cup {m}], p, m))
    /\ UNCHANGED thr

\* the broker thread takes a message off the queue of a toppar
DeqMsg(p, m) ==
    /\ Running
    /\ rktps[p].st = "live"
    /\ m \in Range(rktps[p].rktp_msgq)
    /\ Commit(rd_kafka_toppar_deq_msg(
                  [Heap EXCEPT !.pending = @ \ {m}], p, m))
    /\ UNCHANGED thr

(* ---------------- rd_kafka_topic_new, one step per lock ---------------- *)

\* lines 379-385: thread i enters rd_kafka_topic_new with a proper
\* configuration; every thread creates one topic
TopicNewCall(i, topic) ==
    /\ Running
    /\ thr[i].pc = "idle" /\ thr[i].ret = NULL
    /\ ~topic_new_invalid(topic, 1, 1)
    /\ thr' = [thr EXCEPT ![i] = [pc |-> "find", topic |-> topic,
                                  rkt |-> NULL, ret |-> NULL,
                                  rktp |-> NULL, rkmq |-> <<>>]]
    /\ UNCHANGED <<rk, rkts, rktps, rkbs, handles, app_refs, pending,
                   crashed, errno>>

\* lines 387-388: rd_kafka_topic_find, under the client lock
TopicNewFind(i) ==
    /\ Running
    /\ thr[i].pc = "find"
    /\ LET t == topic_find_rkt(Heap, thr[i].topic)
           h == rd_kafka_topic_find(Heap, thr[i].topic)
       IN  /\ Commit(GiveTopic(h, t))
           /\ thr' = [thr EXCEPT ![i].pc = IF t = NULL THEN "alloc" ELSE "idle",
                                 ![i].ret = t]

\* lines 390-414: the new topic and its UA toppar, not yet visible to others
TopicNewAlloc(i) ==
    /\ Running
    /\ thr[i].pc = "alloc"
    /\ LET h == topic_new_alloc(Heap, thr[i].topic)
       IN  /\ Commit(h)
           /\ thr' = [thr EXCEPT ![i].pc = "link", ![i].rkt = h.ret]

\* lines 416-419: the topic is linked, under the client lock
TopicNewLink(i) ==
    /\ Running
    /\ thr[i].pc = "link"
    /\ Commit(topic_new_link(Heap, thr[i].rkt))
    /\ thr' = [thr EXCEPT ![i].pc = "query"]

\* lines 421-424: the leader query, and the return to the caller
TopicNewReturn(i) ==
    /\ Running
    /\ thr[i].pc = "query"
    /\ Commit(GiveTopic(rd_kafka_topic_leader_query(Heap, thr[i].rkt),
                        thr[i].rkt))
    /\ thr' = [thr EXCEPT ![i].pc = "idle", ![i].ret = thr[i].rkt,
                          ![i].rkt = NULL]

(* --------------------------- specifications --------------------------- *)

Threads == 1..NumThreads

Init ==
    /\ rk = InitRk
    /\ rkts = InitRkts
    /\ rktps = InitRktps
    /\ rkbs = InitRkbs
    /\ handles = InitHandles
    /\ app_refs = InitAppRefs
    /\ pending = {}
    /\ crashed = "none"
    /\ errno = 0
    /\ thr = [i \in Threads |->
                 [pc |-> "idle", topic |-> NullStr, rkt |-> NULL, ret |-> NULL,
                  rktp |-> NULL, rkmq |-> <<>>]]

TopicArgs == {NullStr, EmptyStr} \cup Names
\* names a metadata response can carry
TopicNames == {EmptyStr} \cup Names
\* partition ids with UA
PartitionArgsUa == PartitionArgs \cup {RD_KAFKA_PARTITION_UA}

DoTopicNew ==
    \E topic \in TopicArgs, mt \in Timeouts, rt \in Timeouts :
        TopicNew(topic, mt, rt)
\* callers that pass a proper configuration
DoTopicNewValid ==
    \E topic \in TopicNames : TopicNew(topic, 1, 1)
\* a client that works with one topic
DoTopicNewOne ==
    \E topic \in Names : TopicNew(topic, 1, 1)
DoTopicDestroy == \E t \in TopicIds : TopicDestroy(t)
DoTopparGet ==
    \E t \in TopicIds, partition \in PartitionArgsUa, ua_on_miss \in BOOLEAN :
        TopparGet(t, partition, ua_on_miss)
\* lookups of proper partitions only
DoTopparGetPart ==
    \E t \in TopicIds, partition \in PartitionArgs :
        TopparGet(t, partition, FALSE)
DoTopparGet2 ==
    \E topic \in TopicNames, partition \in PartitionArgsUa,
       ua_on_miss \in BOOLEAN : TopparGet2(topic, partition, ua_on_miss)
DoTopparDestroy == \E p \in PartIds : TopparDestroy(p)
DoDesiredGet ==
    \E t \in TopicIds, partition \in PartitionArgs : DesiredGet(t, partition)
DoDesiredAdd ==
    \E t \in TopicIds, partition \in PartitionArgs : DesiredAdd(t, partition)
DoDesiredDel == \E p \in PartIds : DesiredDel(p)
DoPartitionCntUpdate ==
    \E topic \in TopicNames, partition_cnt \in 0..MaxPartitionCnt :
        PartitionCntUpdate(topic, partition_cnt)
DoTopicUpdate ==
    \E topic \in TopicNames, partition \in PartitionArgs, leader \in LeaderIds :
        TopicUpdate(topic, partition, leader)
DoBrokerDelegate ==
    \E p \in PartIds, b \in BrokerIds \cup {NULL} : BrokerDelegate(p, b)
\* delegation to and from the first broker only
DoBrokerDelegateOne ==
    \E p \in PartIds, b \in {NULL, Min(BrokerIds)} : BrokerDelegate(p, b)
DoPartitionsRemove ==
    \E t \in TopicIds, ua_on_miss \in BOOLEAN : PartitionsRemove(t, ua_on_miss)
DoEnqMsg == \E p \in PartIds, m \in Msgs : EnqMsg(p, m)
DoDeqMsg == \E p \in PartIds, m \in Msgs : DeqMsg(p, m)

\* topic life cycle: creation, partition counts, teardown
Next ==
    \/ DoTopicNew
    \/ DoTopicDestroy
    \/ DoTopparGet
    \/ DoTopparDestroy
    \/ DoPartitionCntUpdate
    \/ DoPartitionsRemove

Spec == Init /\ [][Next]_vars

\* desired partitions
NextDesired ==
    \/ DoTopicNewOne
    \/ DoTopicDestroy
    \/ DoPartitionsRemove
    \/ DoTopparGet
    \/ DoTopparDestroy
    \/ DoDesiredGet
    \/ DoDesiredAdd
    \/ DoDesiredDel
    \/ DoPartitionCntUpdate

SpecDesired == Init /\ [][NextDesired]_vars

\* leader changes
NextLeader ==
    \/ DoTopicNewValid
    \/ DoTopparGetPart
    \/ DoTopparDestroy
    \/ DoPartitionCntUpdate
    \/ DoTopicUpdate
    \/ DoBrokerDelegate

SpecLeader == Init /\ [][NextLeader]_vars

\* produce path against metadata changes
NextMsg ==
    \/ DoTopicNewOne
    \/ DoTopparGet2
    \/ DoTopparDestroy
    \/ DoEnqMsg
    \/ DoDeqMsg
    \/ DoPartitionCntUpdate

SpecMsg == Init /\ [][NextMsg]_vars

\* leader changes of partitions with queued messages
NextUpdate ==
    \/ DoTopicNewOne
    \/ DoTopparGetPart
    \/ DoTopparDestroy
    \/ DoEnqMsg
    \/ DoPartitionCntUpdate
    \/ DoTopicUpdate

SpecUpdate == Init /\ [][NextUpdate]_vars

\* application threads creating topics concurrently
NextNew ==
    \/ \E i \in Threads, topic \in TopicNames : TopicNewCall(i, topic)
    \/ \E i \in Threads : TopicNewFind(i)
    \/ \E i \in Threads : TopicNewAlloc(i)
    \/ \E i \in Threads : TopicNewLink(i)
    \/ \E i \in Threads : TopicNewReturn(i)

SpecNew == Init /\ [][NextNew]_vars

\* one topic whose toppars are held by the array, a broker's list and
\* callers' handles, and which the application gives up
NextRefs ==
    \/ DoTopicNewOne
    \/ DoTopicDestroy
    \/ DoTopparGetPart
    \/ DoTopparDestroy
    \/ DoPartitionCntUpdate
    \/ DoBrokerDelegateOne
    \/ DoPartitionsRemove

SpecRefs == Init /\ [][NextRefs]_vars

(* --------------------- calls interleaved step by step ------------------ *)

\* lines 283-288 of rd_kafka_toppar_ua_move, by thread i with message m in rkmq
UaMoveGet(i, t, ua_on_miss, m) ==
    /\ Running
    /\ thr[i].pc = "idle"
    /\ t \in HeldTopics
    /\ m \notin pending \cup QueuedMsgs
    /\ \A j \in Threads : m \notin Range(thr[j].rkmq)
    /\ LET rktp_ua == toppar_get_rktp(Heap, t, RD_KAFKA_PARTITION_UA,
                                      ua_on_miss)
       IN  /\ Commit(ua_move_get(
                      [Heap EXCEPT !.pending =
                          IF rktp_ua = NULL THEN @ ELSE @ \cup {m}],
                      t, ua_on_miss))
           /\ thr' = IF rktp_ua = NULL THEN thr
                     ELSE [thr EXCEPT ![i].pc = "ua_concat", ![i].rkt = t,
                                      ![i].rktp = rktp_ua, ![i].rkmq = <<m>>]

\* lines 290-294 of rd_kafka_toppar_ua_move
UaMoveConcat(i) ==
    /\ Running
    /\ thr[i].pc = "ua_concat"
    /\ Commit(ua_move_concat(Heap, thr[i].rktp, thr[i].rkmq))
    /\ thr' = [thr EXCEPT ![i].pc = "idle", ![i].rkt = NULL,
                          ![i].rktp = NULL, ![i].rkmq = <<>>]

\* lines 299-305 of rd_kafka_topic_destroy0, by thread i that gives back a
\* reference of the application
TopicDestroyDecr(i, t, str) ==
    /\ Running
    /\ thr[i].pc = "idle"
    /\ t \in HeldTopics
    /\ rkts[t].st = "live"
    /\ str \in {rkts[t].rkt_topic, NullStr}
    /\ LET h == topic_destroy0_decr([Heap EXCEPT !.app_refs[t] = @ - 1],
                                    t, str)
       IN  /\ Commit(h)
           /\ thr' = IF h.crash = "none" /\ h.rkts[t].rkt_refcnt = 0
                     THEN [thr EXCEPT ![i].pc = "unlink", ![i].rkt = t]
                     ELSE thr

\* lines 307-318 of rd_kafka_topic_destroy0
TopicDestroyUnlink(i) ==
    /\ Running
    /\ thr[i].pc = "unlink"
    /\ Commit(topic_destroy0_unlink(Heap, thr[i].rkt))
    /\ thr' = [thr EXCEPT ![i].pc = "idle", ![i].rkt = NULL]

\* lines 761-793 of rd_kafka_topic_assign_uas, by thread i; the thread keeps
\* the queue called failed in rkmq
AssignUasTake(i, topic, ua_on_miss, dec) ==
    /\ Running
    /\ thr[i].pc = "idle"
    /\ LET t  == topic_find_rkt(Heap, topic)
           ua == toppar_get_rktp(Heap, t, RD_KAFKA_PARTITION_UA, ua_on_miss)
           h  == assign_uas_take(Heap, topic, ua_on_miss, dec)
       IN  /\ Commit(h)
           /\ thr' = IF t = NULL \/ ua = NULL \/ h.crash # "none" THEN thr
                     ELSE [thr EXCEPT ![i].pc = "uas_concat", ![i].rkt = t,
                                      ![i].rktp = ua,
                                      ![i].rkmq = h.rktps_new]

\* lines 799-805 of rd_kafka_topic_assign_uas
AssignUasConcat(i) ==
    /\ Running
    /\ thr[i].pc = "uas_concat"
    /\ LET h0 == [Heap EXCEPT !.rktps_new = thr[i].rkmq]
           h  == IF thr[i].rkmq = <<>> THEN h0
                 ELSE assign_uas_concat(h0, thr[i].rktp)
       IN  /\ Commit(h)
           /\ thr' = [thr EXCEPT ![i].pc = "uas_move",
                                 ![i].rkmq = h.rktps_new]

\* lines 806-810 of rd_kafka_topic_assign_uas
AssignUasMove(i) ==
    /\ Running
    /\ thr[i].pc = "uas_move"
    /\ LET h0 == [Heap EXCEPT !.rktps_new = thr[i].rkmq]
           h  == IF thr[i].rkmq = <<>> THEN h0
                 ELSE assign_uas_move(h0, thr[i].rktp)
       IN  Commit(rd_kafka_topic_destroy(
                      rd_kafka_toppar_destroy(h, thr[i].rktp), thr[i].rkt))
    /\ thr' = [thr EXCEPT ![i].pc = "idle", ![i].rkt = NULL,
                          ![i].rktp = NULL, ![i].rkmq = <<>>]

NextRace ==
    \/ DoTopicNewOne
    \/ DoPartitionsRemove
    \/ DoTopparGet
    \/ DoEnqMsg
    \/ \E i \in Threads, topic \in Names, ua_on_miss \in BOOLEAN,
          dec \in [Msgs -> -1 .. MaxPartitionCnt - 1] :
           AssignUasTake(i, topic, ua_on_miss, dec)
    \/ \E i \in Threads : AssignUasConcat(i)
    \/ \E i \in Threads : AssignUasMove(i)
    \/ \E i \in Threads, t \in TopicIds, ua_on_miss \in BOOLEAN, m \in Msgs :
           UaMoveGet(i, t, ua_on_miss, m)
    \/ \E i \in Threads : UaMoveConcat(i)
    \/ \E i \in Threads, t \in TopicIds, str \in TopicArgs :
           TopicDestroyDecr(i, t, str)
    \/ \E i \in Threads : TopicDestroyUnlink(i)

SpecRace == Init /\ [][NextRace]_vars

(* ------------------------------- claims ------------------------------- *)

LiveTopics == {t \in TopicIds : rkts[t].st = "live"}
LiveParts  == {p \in PartIds : rktps[p].st = "live"}

Reachable(p) == rktps[p].st = "live" /\ (InParts(Heap, p) \/ IsUa(Heap, p))

\* how often message m occurs in the queue q
Count(q, m) == Cardinality({i \in 1..Len(q) : q[i] = m})

\* C2: every message that was enqueued and not yet dequeued is in the queue of
\* exactly one toppar that is still reachable from its topic; none is stranded
\* on a removed toppar, dropped or duplicated.
C2_NoMessageLost ==
    crashed = "none" =>
        \A m \in pending :
            /\ \E p \in PartIds : Reachable(p) /\ Count(rktps[p].rktp_msgq, m) = 1
            /\ \A p \in PartIds : ~Reachable(p) => Count(rktps[p].rktp_msgq, m) = 0
            /\ \A p, q \in PartIds :
                  (p # q /\ Count(rktps[p].rktp_msgq, m) > 0)
                      => Count(rktps[q].rktp_msgq, m) = 0

\* C3: rd_kafka_topic_update of an existing topic with a partition id outside
\* [0, rkt_partition_cnt) returns to its caller: the process is not aborted, no
\* toppar is created and rkt_p, rkt_partition_cnt and all leaders are unchanged.
C3_OutOfRangeReported ==
    crashed = "none" =>
        \A topic \in TopicNames, partition \in PartitionArgs, leader \in LeaderIds :
            LET t == topic_find_rkt(Heap, topic)
                h == rd_kafka_topic_update(Heap, topic, partition, leader)
            IN  (t # NULL /\ partition >= rkts[t].rkt_partition_cnt) =>
                    /\ h.crash = "none"
                    /\ \A p \in PartIds :
                          /\ h.rktps[p].st = rktps[p].st
                          /\ h.rktps[p].rktp_leader = rktps[p].rktp_leader
                    /\ \A u \in TopicIds :
                          /\ h.rkts[u].rkt_p = rkts[u].rkt_p
                          /\ h.rkts[u].rkt_partition_cnt = rkts[u].rkt_partition_cnt

\* references of toppar p that have an owner
Owners(p) ==
    (IF InParts(Heap, p) \/ InDesp(Heap, p) \/ IsUa(Heap, p) THEN 1 ELSE 0)
    + (IF rktps[p].rktp_leader # NULL THEN 1 ELSE 0)
    + handles[p]

\* C4: between operations every toppar's reference count is 1 if a container
\* holds it (rkt_p, rkt_desp, rkt_ua), plus 1 if a leader is bound, plus 1 for
\* each handle returned to a caller and not yet released.
C4_RefcountAccounts ==
    crashed = "none" =>
        \A p \in LiveParts : rktps[p].rktp_refcnt = Owners(p)

\* C5: a toppar whose reference count reached zero (the destructor ran) is in
\* no rkt_p array, no rkt_desp list, no rkt_ua slot and no broker's list.
C5_FreedUnlinked ==
    \A p \in PartIds : rktps[p].st = "freed" => ~Linked(Heap, p)

\* toppars whose leader pointer names broker b
LedBy(b) == {p \in PartIds : rktps[p].st # "unalloc" /\ rktps[p].rktp_leader = b}

\* C6: for every broker B the toppars linked into B's list are exactly the
\* toppars whose leader is B, each toppar is in at most one broker's list (and
\* there once), and rkb_toppar_cnt is the size of that set.
C6_LeaderBijection ==
    crashed = "none" =>
        /\ \A b \in BrokerIds :
              /\ Range(rkbs[b].rkb_toppars) = LedBy(b)
              /\ Len(rkbs[b].rkb_toppars) = Cardinality(LedBy(b))
              /\ rkbs[b].rkb_toppar_cnt = Cardinality(LedBy(b))
        /\ \A b, c \in BrokerIds :
              b # c => Range(rkbs[b].rkb_toppars) \cap Range(rkbs[c].rkb_toppars) = {}

\* C6 witness: one broker leads partitions of two different topics, the toppar
\* created first behind the one created later (it came from another leader),
\* while the other broker leads nothing any more
C6_Witness ==
    \E b, c \in BrokerIds, p, q \in LiveParts :
        /\ b # c
        /\ rkbs[b].rkb_toppars = <<q, p>>
        /\ p < q
        /\ rktps[p].rktp_rkt # rktps[q].rktp_rkt
        /\ rkbs[c].rkb_toppars = <<>>
        /\ rkbs[c].rkb_toppar_cnt = 0

\* C7: between operations no toppar is at once an entry of rkt_p and a member
\* of rkt_desp.
C7_PartsXorDesired ==
    crashed = "none" =>
        \A p \in PartIds : ~(InParts(Heap, p) /\ InDesp(Heap, p))

\* C7 witness: a desired toppar was absorbed into rkt_p by a growing partition
\* count while another desired partition is still unseen
C7_Witness ==
    \E t \in LiveTopics, p, q \in LiveParts :
        /\ rkts[t].rkt_partition_cnt = 1
        /\ rkts[t].rkt_p = <<p>>
        /\ rktps[p].rktp_flags = {"DESIRED"}
        /\ rkts[t].rkt_desp = <<q>>
        /\ rktps[q].rktp_flags = {"DESIRED", "UNKNOWN"}
        /\ p > q

\* C8: between operations rkt_p[i] is non-NULL and has rktp_partition = i for
\* every i in [0, rkt_partition_cnt), and no entry of rkt_p has the UA id.
C8_PartsDense ==
    crashed = "none" =>
        \A t \in LiveTopics :
            /\ Len(rkts[t].rkt_p) = rkts[t].rkt_partition_cnt
            /\ \A i \in 0..(rkts[t].rkt_partition_cnt - 1) :
                  /\ rkts[t].rkt_p[i + 1] # NULL
                  /\ rktps[rkts[t].rkt_p[i + 1]].st # "unalloc"
                  /\ rktps[rkts[t].rkt_p[i + 1]].rktp_partition = i
                  /\ rktps[rkts[t].rkt_p[i + 1]].rktp_partition
                        # RD_KAFKA_PARTITION_UA

\* C8 witness: one topic has all its partitions while the partitions of
\* another one were removed, its UA toppar included
C8_Witness ==
    \E t, u \in LiveTopics :
        /\ rkts[t].rkt_partition_cnt = MaxPartitionCnt
        /\ rkts[u].rkt_ua = NULL
        /\ rkts[u].rkt_partition_cnt = 0

\* the state rd_kafka_topic_new may not change when it fails
TopicNewNoChange(h) ==
    /\ h.ret = NULL
    /\ h.errno = EINVAL
    /\ h.crash = "none"
    /\ h.rk = rk /\ h.rkts = rkts /\ h.rktps = rktps /\ h.rkbs = rkbs
    /\ h.lq = 0

ExpectedLeader(leader) ==
    IF leader # -1 /\ \E b \in BrokerIds : NodeIdOf(b) = leader
    THEN CHOOSE b \in BrokerIds : NodeIdOf(b) = leader
    ELSE NULL

\* C10: after rd_kafka_topic_update(topic, p, L) on an existing partition the
\* leader is the broker with node id L if L is not -1 and known, else none; the
\* queue holds the same messages in the same order; and the leader query is
\* made exactly once when the resulting leader is none and not at all otherwise.
C10_TopicUpdateResult ==
    crashed = "none" =>
        \A topic \in TopicNames, partition \in PartitionArgs, leader \in LeaderIds :
            LET t == topic_find_rkt(Heap, topic)
                p == toppar_get_rktp(Heap, t, partition, FALSE)
                h == rd_kafka_topic_update(Heap, topic, partition, leader)
            IN  (t # NULL /\ partition < rkts[t].rkt_partition_cnt) =>
                    /\ h.crash = "none"
                    /\ h.rktps[p].rktp_leader = ExpectedLeader(leader)
                    /\ h.rktps[p].rktp_msgq = rktps[p].rktp_msgq
                    /\ h.lq = IF ExpectedLeader(leader) = NULL THEN 1 ELSE 0

\* C10 witness: a partition with two queued messages has a leader, and the
\* other broker leads nothing yet
C10_Witness ==
    \E p \in LiveParts, b, c \in BrokerIds :
        /\ b # c
        /\ rktps[p].rktp_leader = b
        /\ Len(rktps[p].rktp_msgq) = 2
        /\ InParts(Heap, p)
        /\ rkbs[c].rkb_toppars = <<>>

\* the queues of the partitions i .. n-1 of topic t, one after the other
RECURSIVE RemovedQueues(_, _, _)
RemovedQueues(t, i, n) ==
    IF i >= n THEN <<>>
    ELSE rktps[rkts[t].rkt_p[i + 1]].rktp_msgq \o RemovedQueues(t, i + 1, n)

\* C12: when rd_kafka_topic_partition_cnt_update shrinks a topic whose UA
\* toppar exists, it returns 1, rkt_partition_cnt is the new count, the UA
\* queue is its previous contents followed by the queues of the removed
\* partitions in partition order, the removed queues are empty and the queues
\* of the kept partitions are unchanged.
C12_ShrinkConcatOrder ==
    crashed = "none" =>
        \A topic \in TopicNames, partition_cnt \in PartitionArgs :
            LET t   == topic_find_rkt(Heap, topic)
                h   == rd_kafka_topic_partition_cnt_update(Heap, topic,
                                                           partition_cnt)
                old == rkts[t].rkt_partition_cnt
                ua  == rkts[t].rkt_ua
            IN  (t # NULL /\ partition_cnt < old /\ ua # NULL) =>
                    /\ h.crash = "none"
                    /\ h.ret = 1
                    /\ h.rkts[t].rkt_partition_cnt = partition_cnt
                    /\ h.rktps[ua].rktp_msgq =
                          rktps[ua].rktp_msgq
                              \o RemovedQueues(t, partition_cnt, old)
                    /\ \A i \in partition_cnt..(old - 1) :
                          h.rktps[rkts[t].rkt_p[i + 1]].rktp_msgq = <<>>
                    /\ \A i \in 0..(partition_cnt - 1) :
                          h.rktps[rkts[t].rkt_p[i + 1]].rktp_msgq =
                              rktps[rkts[t].rkt_p[i + 1]].rktp_msgq

\* C13: when rd_kafka_topic_partition_cnt_update grows a topic past an id i
\* that has a toppar on rkt_desp, that same object becomes rkt_p[i], it leaves
\* rkt_desp, its UNKNOWN flag is cleared while DESIRED stays; every other new
\* index gets a newly created toppar without flags; the call returns 1.
C13_GrowAbsorbsDesired ==
    crashed = "none" =>
        \A topic \in TopicNames, partition_cnt \in PartitionArgs :
            LET t   == topic_find_rkt(Heap, topic)
                h   == rd_kafka_topic_partition_cnt_update(Heap, topic,
                                                           partition_cnt)
                old == rkts[t].rkt_partition_cnt
            IN  (/\ t # NULL /\ partition_cnt > old
                 /\ h.crash # "out_of_model"
                 /\ \A d \in Range(rkts[t].rkt_desp) : rktps[d].st = "live") =>
                    /\ h.crash = "none"
                    /\ h.ret = 1
                    /\ Len(h.rkts[t].rkt_p) = partition_cnt
                    /\ \A i \in old..(partition_cnt - 1) :
                          LET d == desired_get_rktp(Heap, t, i)
                              q == h.rkts[t].rkt_p[i + 1]
                          IN  IF d # NULL
                              THEN /\ q = d
                                   /\ d \notin Range(h.rkts[t].rkt_desp)
                                   /\ "UNKNOWN" \notin h.rktps[d].rktp_flags
                                   /\ "DESIRED" \in h.rktps[d].rktp_flags
                              ELSE /\ rktps[q].st = "unalloc"
                                   /\ h.rktps[q].st = "live"
                                   /\ h.rktps[q].rktp_partition = i
                                   /\ h.rktps[q].rktp_flags = {}

\* C13 witness: partition 1 was desired before the topic had partitions; the
\* count grew to 2, the older object is rkt_p[1] with DESIRED only, partition 0
\* is a younger object without flags, and rkt_desp is empty
C13_Witness ==
    \E t \in LiveTopics, n, d \in LiveParts :
        /\ rkts[t].rkt_p = <<n, d>>
        /\ d < n
        /\ rktps[d].rktp_flags = {"DESIRED"}
        /\ rktps[n].rktp_flags = {}
        /\ rkts[t].rkt_desp = <<>>

\* the reference count of toppar p in heap h; a destroyed toppar has none
RefcntOf(h, p) == IF h.rktps[p].st = "live" THEN h.rktps[p].rktp_refcnt ELSE 0

\* C15: rd_kafka_toppar_desired_del on a toppar without DESIRED changes
\* nothing; with DESIRED it clears DESIRED and, if UNKNOWN is set too, clears
\* UNKNOWN and unlinks the toppar from rkt_desp; it releases one reference
\* exactly when it unlinked the toppar, and none when the toppar was DESIRED
\* but not UNKNOWN.
C15_DesiredDelRelease ==
    crashed = "none" =>
        \A p \in LiveParts :
            LET h   == rd_kafka_toppar_desired_del(Heap, p)
                old == rktps[p].rktp_flags
            IN  /\ h.crash = "none"
                /\ "DESIRED" \notin old =>
                      /\ h.rktps = rktps
                      /\ h.rkts = rkts
                /\ ("DESIRED" \in old /\ "UNKNOWN" \in old) =>
                      /\ ~InDesp(h, p)
                      /\ h.rktps[p].st = "live" => h.rktps[p].rktp_flags = {}
                      /\ RefcntOf(h, p) = rktps[p].rktp_refcnt - 1
                /\ ("DESIRED" \in old /\ "UNKNOWN" \notin old) =>
                      /\ h.rktps[p].rktp_flags = {}
                      /\ h.rkts = rkts
                      /\ RefcntOf(h, p) = rktps[p].rktp_refcnt

\* live toppars whose parent is topic t
PartsOf(t) == {p \in LiveParts : rktps[p].rktp_rkt = t}

\* C19: a topic's reference count is at least the number of live toppars
\* whose parent it is, so no topic is destroyed while one of its toppars is
\* alive, whoever holds that toppar (rkt_p, rkt_desp, a broker's list, a
\* handle).
C19_TopicOutlivesParts ==
    crashed = "none" =>
        /\ \A p \in LiveParts : rkts[rktps[p].rktp_rkt].st = "live"
        /\ \A t \in LiveTopics : rkts[t].rkt_refcnt >= Cardinality(PartsOf(t))

\* the toppars topic t owns: its partitions and its UA toppar
OwnedParts(t) ==
    Range(rkts[t].rkt_p) \cup (IF rkts[t].rkt_ua = NULL THEN {}
                               ELSE {rkts[t].rkt_ua})

\* C18: for a topic whose toppars have no leader, no DESIRED flag and no
\* outstanding handle, rd_kafka_topic_partitions_remove leaves
\* rkt_partition_cnt = 0, an empty rkt_p and no rkt_ua, and the release of the
\* application's single reference then brings rkt_refcnt to exactly zero: the
\* topic is unlinked from rk_topics and freed.
C18_RemoveThenRelease ==
    crashed = "none" =>
        \A t \in LiveTopics, ua_on_miss \in BOOLEAN :
            LET h  == rd_kafka_topic_partitions_remove(Heap, t, ua_on_miss)
                h2 == rd_kafka_topic_destroy(h, t)
            IN  (/\ app_refs[t] = 1
                 /\ rkts[t].rkt_desp = <<>>
                 /\ \A p \in PartIds :
                       (rktps[p].st # "unalloc" /\ rktps[p].rktp_rkt = t) =>
                           /\ p \in OwnedParts(t)
                           /\ rktps[p].st = "live"
                           /\ rktps[p].rktp_leader = NULL
                           /\ "DESIRED" \notin rktps[p].rktp_flags
                           /\ handles[p] = 0) =>
                    /\ h.crash = "none"
                    /\ h.rkts[t].rkt_partition_cnt = 0
                    /\ h.rkts[t].rkt_p = <<>>
                    /\ h.rkts[t].rkt_ua = NULL
                    /\ h.rkts[t].rkt_refcnt = 1
                    /\ h2.crash = "none"
                    /\ h2.rkts[t].st = "freed"
                    /\ t \notin Range(h2.rk.rk_topics)

\* C19 witness: the application gave the topic up and its partitions were
\* removed, but one toppar is still on a broker's list: the topic lives on
\* with that toppar's reference only
C19_Witness ==
    \E p \in LiveParts :
        /\ ~InParts(Heap, p) /\ ~IsUa(Heap, p)
        /\ InBroker(Heap, p)
        /\ handles[p] = 0
        /\ app_refs[rktps[p].rktp_rkt] = 0
        /\ rkts[rktps[p].rktp_rkt].st = "live"
        /\ rkts[rktps[p].rktp_rkt].rkt_refcnt = 1

\* the heaps the calls of the interface leave behind, from the current state
CallResults ==
    {rd_kafka_topic_destroy([Heap EXCEPT !.app_refs[t] = @ - 1], t) :
        t \in HeldTopics}
    \cup {rd_kafka_toppar_destroy([Heap EXCEPT !.handles[p] = @ - 1], p) :
        p \in HeldParts}
    \cup {rd_kafka_topic_unlock(
                   rd_kafka_toppar_desired_add(rd_kafka_topic_wrlock(Heap, t[1]),
                       t[1], t[2]),
                   t[1]) :
        t \in HeldTopics \X (0 .. MaxPartitionCnt - 1)}
    \cup {rd_kafka_topic_unlock(
                   rd_kafka_toppar_desired_del(rd_kafka_topic_wrlock(Heap, rktps[p].rktp_rkt),
                       p),
                   rktps[p].rktp_rkt) :
        p \in HeldParts}
    \cup {rd_kafka_topic_unlock(
                   rd_kafka_toppar_broker_delegate(rd_kafka_topic_wrlock(Heap, rktps[p[1]].rktp_rkt),
                       p[1], p[2]),
                   rktps[p[1]].rktp_rkt) :
        p \in HeldParts \X ({NULL} \cup BrokerIds)}
    \cup {rd_kafka_topic_partition_cnt_update(Heap, c[1], c[2]) :
        c \in Names \X (0 .. MaxPartitionCnt)}
    \cup {rd_kafka_topic_partitions_remove(Heap, t[1], t[2]) :
        t \in HeldTopics \X BOOLEAN}
    \cup {rd_kafka_topic_update(Heap, u[1], u[2], u[3]) :
        u \in Names \X (0 .. MaxPartitionCnt - 1) \X LeaderIds}

\* C14: a thread takes the client lock, a topic lock, a toppar lock and a
\* broker's toppar-list lock in that order only, also in the destructors a
\* release runs while the thread holds locks.
C14_LockOrder ==
    crashed = "none" =>
        \A h \in CallResults : h.crash = "none" => h.order_ok

\* C16: every change of a toppar's message queue is made by a thread that
\* holds the lock of that toppar.
C16_MsgqUnderLock ==
    crashed = "none" =>
        /\ \A h \in CallResults : h.crash = "none" => h.msgq_ok
        /\ \A t \in HeldTopics, ua_on_miss \in BOOLEAN,
              m \in Msgs \ (pending \cup QueuedMsgs) :
               LET h == rd_kafka_toppar_ua_move(Heap, t, ua_on_miss, <<m>>)
               IN  h.crash = "none" => h.msgq_ok
        /\ \A p \in HeldParts, m \in Msgs :
               LET h == rd_kafka_toppar_enq_msg(Heap, p, m)
               IN  h.crash = "none" => h.msgq_ok
        /\ \A p \in LiveParts : \A m \in Range(rktps[p].rktp_msgq) :
               LET h == rd_kafka_toppar_deq_msg(Heap, p, m)
               IN  h.crash = "none" => h.msgq_ok

\* C11: rd_kafka_topic_assign_uas leaves exactly the rejected messages on the
\* UA queue, in their original order, and every accepted message at the tail
\* of its target queue, in order; a second drain in which every message is
\* rejected leaves the UA queue as it is.
C11_AssignUas ==
    crashed = "none" =>
        \A t \in LiveTopics, ua_on_miss \in BOOLEAN, dec \in [Msgs -> -1 .. MaxPartitionCnt - 1] :
            LET ua  == rkts[t].rkt_ua
                q   == rktps[ua].rktp_msgq
                h   == rd_kafka_topic_assign_uas(Heap, rkts[t].rkt_topic,
                                                 ua_on_miss, dec)
                h2  == rd_kafka_topic_assign_uas(h, rkts[t].rkt_topic,
                                                 ua_on_miss,
                                                 [m \in Msgs |-> -1])
            IN  (ua # NULL /\ t \in Range(rk.rk_topics)
                 /\ h.crash = "none" /\ h2.crash = "none") =>
                    /\ h.rktps[ua].rktp_msgq =
                           SelectSeq(q, LAMBDA m :
                               \/ dec[m] < 0
                               \/ dec[m] >= rkts[t].rkt_partition_cnt)
                    /\ \A i \in 0 .. rkts[t].rkt_partition_cnt - 1 :
                           LET p == rkts[t].rkt_p[i + 1]
                           IN  h.rktps[p].rktp_msgq =
                                   rktps[p].rktp_msgq \o
                                   SelectSeq(q, LAMBDA m : dec[m] = i)
                    /\ h2.rktps[ua].rktp_msgq = h.rktps[ua].rktp_msgq

\* C17: a thread in rd_kafka_toppar_ua_move that appends its messages and
\* returns 0 appends them to the toppar that is the UA toppar of the topic at
\* that moment, never to one that rd_kafka_topic_partitions_remove has purged
\* and detached.
C17_UaMoveRace ==
    crashed = "none" =>
        \A i \in Threads :
            thr[i].pc = "ua_concat" =>
                LET h == ua_move_concat(Heap, thr[i].rktp, thr[i].rkmq)
                IN  (h.crash = "none" /\ h.ret = 0) =>
                        rkts[thr[i].rkt].rkt_ua = thr[i].rktp

\* C20: every topic linked in rk_topics has a reference count of at least
\* one, so rd_kafka_topic_find never returns a topic whose count had reached
\* zero.
C20_FindNeverRevives ==
    crashed = "none" =>
        /\ \A t \in Range(rk.rk_topics) :
               rkts[t].st = "live" /\ rkts[t].rkt_refcnt >= 1
        /\ \A topic \in Names :
               LET t == topic_find_rkt(Heap, topic)
                   h == rd_kafka_topic_find(Heap, topic)
               IN  (t # NULL /\ h.crash = "none") =>
                       /\ rkts[t].rkt_refcnt >= 1
                       /\ h.rkts[t].rkt_refcnt = rkts[t].rkt_refcnt + 1

\* C22: every toppar linked into a broker's rkb_toppars is the entry
\* rkt_p[rktp_partition] of its topic: no toppar that a shrinking
\* rd_kafka_topic_partition_cnt_update or rd_kafka_topic_partitions_remove took
\* out of the topic is still bound to a leader.
C22_LedPartsAreKnown ==
    crashed = "none" =>
        \A b \in BrokerIds : \A p \in Range(rkbs[b].rkb_toppars) :
            LET t == rktps[p].rktp_rkt
                i == rktps[p].rktp_partition
            IN  /\ rktps[p].st = "live"
                /\ rkts[t].st = "live"
                /\ 0 <= i /\ i < rkts[t].rkt_partition_cnt
                /\ rkts[t].rkt_p[i + 1] = p

\* C21: the put-back of rd_kafka_topic_assign_uas leaves the UA queue holding
\* the failed messages followed by every message that was enqueued on the UA
\* toppar since the drain took the queue: no such message is overwritten.
C21_DrainKeepsEnqueued ==
    crashed = "none" =>
        \A i \in Threads :
            LET ua == thr[i].rktp
                h0 == [Heap EXCEPT !.rktps_new = thr[i].rkmq]
            IN  /\ (thr[i].pc = "uas_concat" /\ thr[i].rkmq # <<>>) =>
                       LET h == assign_uas_move(assign_uas_concat(h0, ua), ua)
                       IN  h.crash = "none" =>
                               h.rktps[ua].rktp_msgq =
                                   thr[i].rkmq \o rktps[ua].rktp_msgq
                /\ (thr[i].pc = "uas_move" /\ thr[i].rkmq # <<>>) =>
                       LET h == assign_uas_move(h0, ua)
                       IN  h.crash = "none" =>
                               \A m \in Range(rktps[ua].rktp_msgq) :
                                   m \in Range(h.rktps[ua].rktp_msgq)
====
